---- MODULE Spec2Model ----
(***************************************************************************)
(* Model of src/maxFuncBodyLengthRule.ts: the max-func-body-length rule.   *)
(*                                                                         *)
(* The walker is constructed over a parsed source file and the rule's      *)
(* option list (the constructor parses the options), then walks the tree   *)
(* depth-first.  The recursion of the walk is kept as an explicit stack of *)
(* frames; one action models one visit hook up to its call of super.visit* *)
(* (the descent), and one action models what the hook does after that call *)
(* returns.  An exception thrown inside a hook stops the walk for good: no *)
(* hook has a try/finally, so nothing runs after it.                       *)
(***************************************************************************)
EXTENDS Integers, Sequences, FiniteSets, TLC

VARIABLES
    options,                          \* this.getOptions(): the rule's option list
    tree,                             \* the parsed file: nodes 1..Len(tree) in source (pre-)order
    pc,                               \* "parse" | "walk" | "done" | "error"
    optIndex,                         \* forEach position in parseOptions
    maxBodyLength,
    maxFuncBodyLength,
    maxArrowBodyLength,
    maxMethodBodyLength,
    maxCtorBodyLength,
    currentClassName,
    ignoreParametersToFunctionRegex,
    ignoreNodes,
    failures,                         \* the walker's failure list, in order of addFailure
    stack,                            \* the visit hooks that are being executed, outermost first
    cursor,                           \* the last node whose visit hook was entered
    error,                            \* the exception that ended the walk, if any
    validated,                        \* history: the calls of validate(), in order: the node, and
                                      \* whether ignoreNodes held it then
    returned                          \* history: the node whose visit hook returned last

vars == << options, tree, pc, optIndex, maxBodyLength, maxFuncBodyLength,
           maxArrowBodyLength, maxMethodBodyLength, maxCtorBodyLength,
           currentClassName, ignoreParametersToFunctionRegex, ignoreNodes,
           failures, stack, cursor, error, validated, returned >>

config == << maxBodyLength, maxFuncBodyLength, maxArrowBodyLength,
             maxMethodBodyLength, maxCtorBodyLength, ignoreParametersToFunctionRegex >>

----------------------------------------------------------------------------
(* Bounds of the model *)

MaxNodes == 3
MaxOptions == 2
MaxLine == 2

----------------------------------------------------------------------------
(* JavaScript values.  A value is a record tagged with its typeof.         *)

Undefined == [type |-> "undefined"]
Num(n) == [type |-> "number", val |-> n]
Str(s) == [type |-> "string", val |-> s]
Bool(b) == [type |-> "boolean", val |-> b]

\* ToBoolean of the values the rule tests: undefined, numbers and strings
\* (a string is a sequence of characters).
Truthy(v) ==
    CASE v.type = "number" -> v.val # 0
      [] v.type = "string" -> v.val # << >>
      [] v.type = "boolean" -> v.val
      [] v.type = "object" -> TRUE
      [] OTHER -> FALSE

\* a || b
Or(a, b) == IF Truthy(a) THEN a ELSE b

\* length > max, for a number length: the comparison with undefined is false.
GreaterThan(length, max) == max.type = "number" /\ length > max.val

----------------------------------------------------------------------------
(* Syntax kinds and the tree *)

FunctionDeclaration == "FunctionDeclaration"
MethodDeclaration == "MethodDeclaration"
ArrowFunction == "ArrowFunction"
Constructor == "Constructor"
ClassDeclaration == "ClassDeclaration"
CallExpression == "CallExpression"
SourceFile == "SourceFile"
Other == "Other"

FunctionLikeKinds == {FunctionDeclaration, MethodDeclaration, ArrowFunction, Constructor}

\* An identifier node: the name of a declaration, or (part of) a callee.
Identifier(s) == [type |-> "object", text |-> Str(s)]

\* The text of "undefined", as a template string or RegExp.test converts it.
UndefinedText == << "u", "n", "d", "e", "f", "i", "n", "e", "d" >>

\* String(v) for the values that get interpolated or matched.
ToText(v) == IF v.type = "string" THEN v.val ELSE UndefinedText

\* Declarations of one file get pairwise different names.
NameOf(i) == << "n", ToString(i) >>

\* A body that spans the lines pos..end of the file (0-indexed).
Body(pos, end) == [type |-> "object", pos |-> pos, end |-> end]

\* The callee of a call: a plain identifier (expression.text is its text), a
\* property access a.b (expression.name is the identifier b), or any other
\* expression, which has neither.
IdentifierCallee(s) == [text |-> Str(s), name |-> Undefined]
PropertyAccessCallee(s) == [text |-> Undefined, name |-> Identifier(s)]
OtherCallee == [text |-> Undefined, name |-> Undefined]

Node(parent, kind, argument, name, expression, body) ==
    [parent |-> parent, kind |-> kind, argument |-> argument, name |-> name,
     expression |-> expression, body |-> body]

\* The nodes the parser can put next in source order after the nodes of t, as
\* node i = Len(t) + 1: a child of the last node or of one of its ancestors.
\* The children of a call are its callee expression (first, when it holds
\* anything to visit) and its arguments, all of them expressions; under any
\* other node a declaration may sit (blocks, class bodies and other nodes
\* without a hook are left out between a node and its nearest descendant).
RECURSIVE RightPath(_, _)
RightPath(t, n) == IF n = 0 THEN {0} ELSE {n} \cup RightPath(t, t[n].parent)

KindAt(t, n) == IF n = 0 THEN SourceFile ELSE t[n].kind

NamesOf(k, i) ==
    CASE k \in {FunctionDeclaration, ClassDeclaration} -> {Undefined, Identifier(NameOf(i))}
      [] k = MethodDeclaration -> {Identifier(NameOf(i))}
      [] OTHER -> {Undefined}

CalleesOf(k, C) == IF k = CallExpression THEN C ELSE {Undefined}

\* An arrow function always has a body; a declaration may lack one (an
\* overload, an abstract or ambient signature).
BodiesOf(k, B) ==
    CASE k = ArrowFunction -> B \ {Undefined}
      [] k \in FunctionLikeKinds -> B
      [] OTHER -> {Undefined}

NodesUnder(i, p, argument, kinds, B, C) ==
    UNION { { Node(p, k, argument, nm, ex, bd) :
                nm \in NamesOf(k, i), ex \in CalleesOf(k, C), bd \in BodiesOf(k, B) } :
            k \in kinds }

AllKinds == FunctionLikeKinds \cup {ClassDeclaration, CallExpression, Other}
ExpressionKinds == {ArrowFunction, CallExpression, Other}

NextNodes(t, B, C) ==
    LET i == Len(t) + 1 IN
    UNION { IF KindAt(t, p) = CallExpression
            THEN NodesUnder(i, p, TRUE, ExpressionKinds, B, C) \cup
                 (IF p = Len(t) THEN NodesUnder(i, p, FALSE, ExpressionKinds, B, C) ELSE {})
            ELSE NodesUnder(i, p, FALSE, AllKinds, B, C)
          : p \in RightPath(t, Len(t)) }

\* The files of at most n nodes below the SourceFile node.
RECURSIVE Trees(_, _, _)
Trees(n, B, C) ==
    IF n = 0 THEN { << >> }
    ELSE LET smaller == Trees(n - 1, B, C) IN
         smaller \cup
         UNION { { Append(t, nd) : nd \in NextNodes(t, B, C) } :
                 t \in { s \in smaller : Len(s) = n - 1 } }

\* All bodies within the first MaxLine + 1 lines: the end is never before the start.
Bodies == UNION { { Body(pos, end) : end \in pos..MaxLine } : pos \in 0..MaxLine }

----------------------------------------------------------------------------
(* Options and parseOptions (lines 102-120) *)

FUNC_BODY_LENGTH == "func-body-length"
ARROW_BODY_LENGTH == "arrow-body-length"
METHOD_BODY_LENGTH == "method-body-length"
CTOR_BODY_LENGTH == "ctor-body-length"
IGNORE_PARAMETERS_TO_FUNCTION == "ignore-parameters-to-function-regex"

OptionKeys == {FUNC_BODY_LENGTH, ARROW_BODY_LENGTH, METHOD_BODY_LENGTH, CTOR_BODY_LENGTH,
               IGNORE_PARAMETERS_TO_FUNCTION}

\* An object entry; a key the object does not have reads as undefined.
Object(func, arrow, method, ctor, regex) ==
    [type |-> "object",
     props |-> (FUNC_BODY_LENGTH :> func) @@ (ARROW_BODY_LENGTH :> arrow) @@
               (METHOD_BODY_LENGTH :> method) @@ (CTOR_BODY_LENGTH :> ctor) @@
               (IGNORE_PARAMETERS_TO_FUNCTION :> regex)]

\* new RegExp(source), for a source without metacharacters.
RegExp(source) == [type |-> "object", source |-> source]

\* s[i..i+Len(p)-1] = p
OccursAt(p, s, i) == \A j \in 1..Len(p) : s[i + j - 1] = p[j]

\* regex.test(v): v is converted to a string, and a pattern without
\* metacharacters or anchors matches wherever it occurs in it.
RegExpTest(regex, v) ==
    LET s == ToText(v)
        p == regex.source
    IN  \E i \in 1..(Len(s) - Len(p) + 1) : OccursAt(p, s, i)

\* What one forEach callback of parseOptions leaves in the fields.
ParseOptionMutant(c, opt) ==
    IF opt.type = "number" THEN c
    ELSE IF opt.type = "object" THEN
        [c EXCEPT !.maxFuncBodyLength = opt.props[FUNC_BODY_LENGTH],
                  !.maxArrowBodyLength = opt.props[ARROW_BODY_LENGTH],
                  !.maxMethodBodyLength = opt.props[METHOD_BODY_LENGTH],
                  !.maxCtorBodyLength = opt.props[CTOR_BODY_LENGTH],
                  !.ignoreParametersToFunctionRegex =
                      IF Truthy(opt.props[IGNORE_PARAMETERS_TO_FUNCTION])
                      THEN RegExp(opt.props[IGNORE_PARAMETERS_TO_FUNCTION].val)
                      ELSE @]
    ELSE c

ParseOption(c, opt) ==
    IF opt.type = "number" THEN [c EXCEPT !.maxBodyLength = opt]
    ELSE IF opt.type = "object" THEN
        [c EXCEPT !.maxFuncBodyLength = opt.props[FUNC_BODY_LENGTH],
                  !.maxArrowBodyLength = opt.props[ARROW_BODY_LENGTH],
                  !.maxMethodBodyLength = opt.props[METHOD_BODY_LENGTH],
                  !.maxCtorBodyLength = opt.props[CTOR_BODY_LENGTH],
                  !.ignoreParametersToFunctionRegex =
                      IF Truthy(opt.props[IGNORE_PARAMETERS_TO_FUNCTION])
                      THEN RegExp(opt.props[IGNORE_PARAMETERS_TO_FUNCTION].val)
                      ELSE @]
    ELSE c

\* The fields as a record, and the fields before parseOptions runs.
Fields ==
    [maxBodyLength |-> maxBodyLength, maxFuncBodyLength |-> maxFuncBodyLength,
     maxArrowBodyLength |-> maxArrowBodyLength, maxMethodBodyLength |-> maxMethodBodyLength,
     maxCtorBodyLength |-> maxCtorBodyLength,
     ignoreParametersToFunctionRegex |-> ignoreParametersToFunctionRegex]

----------------------------------------------------------------------------
(* AstUtils.getFunctionName, Utils.contains, Utils.removeAll *)

\* The callee's name: the text of a plain identifier, else the name of a
\* property access, else undefined.
GetFunctionName(node) ==
    LET functionName == node.expression.text IN
    IF functionName = Undefined /\ Truthy(node.expression.name)
    THEN node.expression.name.text
    ELSE functionName

\* Membership by identity.
Contains(list, element) == \E i \in 1..Len(list) : list[i] = element

\* source without every element that is in elementsToRemove, order kept.
RemoveAll(source, elementsToRemove) ==
    SelectSeq(source, LAMBDA e : ~Contains(elementsToRemove, e))

----------------------------------------------------------------------------
(* The walker's private methods *)

\* node.arguments of call n: its argument children, in source order.
RECURSIVE ArgumentsFrom(_, _)
ArgumentsFrom(n, i) ==
    IF i > Len(tree) THEN << >>
    ELSE IF tree[i].parent = n /\ tree[i].argument
         THEN << i >> \o ArgumentsFrom(n, i + 1)
         ELSE ArgumentsFrom(n, i + 1)

Arguments(n) == ArgumentsFrom(n, n + 1)

\* lines 88-96
CalcBodyLengthMutant(node) ==
    IF node.body = Undefined THEN 0 ELSE node.body.end - node.body.pos + 1

CalcBodyLength(node) ==
    IF node.body = Undefined THEN 0 ELSE node.body.end - node.body.pos

UnsupportedNodeKind == [type |-> "error", message |-> "Unsupported node kind"]
TypeError == [type |-> "error", message |-> "TypeError"]
NoError == [type |-> "none"]

\* lines 144-156
GetFuncTypeText(nodeKind) ==
    CASE nodeKind = FunctionDeclaration -> Str("function")
      [] nodeKind = MethodDeclaration -> Str("method")
      [] nodeKind = ArrowFunction -> Str("arrow function")
      [] nodeKind = Constructor -> Str("constructor")
      [] OTHER -> UnsupportedNodeKind

\* lines 158-174
GetMaxLength(nodeKind) ==
    CASE nodeKind = FunctionDeclaration -> Or(maxFuncBodyLength, maxBodyLength)
      [] nodeKind = MethodDeclaration -> Or(maxMethodBodyLength, maxBodyLength)
      [] nodeKind = ArrowFunction -> Or(maxArrowBodyLength, maxBodyLength)
      [] nodeKind = Constructor -> Or(maxCtorBodyLength, maxBodyLength)
      [] OTHER -> UnsupportedNodeKind

\* lines 98-100
IsFunctionTooLong(nodeKind, length) == GreaterThan(length, GetMaxLength(nodeKind))

\* lines 134-142; the name of a declaration that has none cannot be read.
FormatPlaceText(n) ==
    LET node == tree[n]
        funcTypeText == GetFuncTypeText(node.kind)
    IN  IF funcTypeText.type = "error" THEN funcTypeText
        ELSE IF node.kind \in {MethodDeclaration, FunctionDeclaration}
        THEN IF node.name = Undefined THEN TypeError
             ELSE Str(<< " in ", funcTypeText.val, " ", ToText(node.name.text), "()" >>)
        ELSE IF node.kind = Constructor
        THEN Str(<< " in class ", ToText(currentClassName) >>)
        ELSE Str(<< >>)

\* lines 127-132: the holes of
\* `Max <funcTypeText> body length exceeded<placeText> - max: <maxLength>, actual: <length>`,
\* or the error that one of the three lookups throws.
FormatFailureText(n, length) ==
    LET funcTypeText == GetFuncTypeText(tree[n].kind)
        maxLength == GetMaxLength(tree[n].kind)
        placeText == FormatPlaceText(n)
    IN  IF funcTypeText.type = "error" THEN funcTypeText
        ELSE IF maxLength.type = "error" THEN maxLength
        ELSE IF placeText.type = "error" THEN placeText
        ELSE [type |-> "string", funcTypeText |-> funcTypeText.val,
              placeText |-> placeText.val, max |-> maxLength, actual |-> length]

\* line 80: is the node one of the ignored references
IsIgnoredMutant(n) == FALSE

IsIgnored(n) == Contains(ignoreNodes, n)

\* lines 79-86 with addFuncBodyTooLongFailure (122-125): the failures validate
\* adds, anchored at the node, and the error it throws (then nothing is added:
\* the text is formatted before the failure is created).
Validate(n) ==
    IF IsIgnored(n) THEN [error |-> NoError, failures |-> << >>]
    ELSE LET bodyLength == CalcBodyLength(tree[n]) IN
         IF GetMaxLength(tree[n].kind).type = "error"
         THEN [error |-> GetMaxLength(tree[n].kind), failures |-> << >>]
         ELSE IF ~IsFunctionTooLong(tree[n].kind, bodyLength)
         THEN [error |-> NoError, failures |-> << >>]
         ELSE LET text == FormatFailureText(n, bodyLength) IN
              IF text.type = "error" THEN [error |-> text, failures |-> << >>]
              ELSE [error |-> NoError,
                    failures |-> << [node |-> n, length |-> bodyLength, message |-> text] >>]

\* line 40: does the call's callee name match the configured pattern
IsIgnoredCallMutant(n) == Truthy(ignoreParametersToFunctionRegex)

IsIgnoredCall(n) ==
    /\ Truthy(ignoreParametersToFunctionRegex)
    /\ RegExpTest(ignoreParametersToFunctionRegex, GetFunctionName(tree[n]))

\* lines 42-44: ignoreNodes after the arguments of call n are pushed
PushArguments(n) == ignoreNodes \o Arguments(n)

\* line 47: ignoreNodes after the call's descent
ClearArgumentsMutant(n) == << >>

ClearArguments(n) == RemoveAll(ignoreNodes, Arguments(n))

\* line 76: the class name after the class's descent
ClassNameAfterMutant(n) == tree[n].name.text

ClassNameAfter(n) == Undefined

----------------------------------------------------------------------------
(* The walk *)

NoFrame == [node |-> -1, entry |-> << >>]

\* A visit hook in execution: its node, and (history) ignoreNodes as the hook found it.
Frame(n) == [node |-> n, entry |-> ignoreNodes]

Top == stack[Len(stack)]

\* The next child the hook on top of the stack descends into, if it has one left.
HasNext == cursor < Len(tree) /\ tree[cursor + 1].parent = Top.node

Entering(kind) == pc = "walk" /\ HasNext /\ tree[cursor + 1].kind = kind

Leaving(kinds) == pc = "walk" /\ ~HasNext /\ KindAt(tree, Top.node) \in kinds

Descend(n) ==
    /\ stack' = Append(stack, Frame(n))
    /\ cursor' = n
    /\ returned' = NoFrame
    /\ UNCHANGED << pc, error >>

Return ==
    /\ stack' = SubSeq(stack, 1, Len(stack) - 1)
    /\ returned' = Top
    /\ UNCHANGED << pc, error, cursor >>

Throw(e) ==
    /\ pc' = "error"
    /\ error' = e
    /\ returned' = NoFrame
    /\ UNCHANGED << stack, cursor >>

\* lines 102-120: one callback of the forEach in parseOptions
ParseOptions ==
    /\ pc = "parse"
    /\ optIndex <= Len(options)
    /\ LET c == ParseOption(Fields, options[optIndex]) IN
        /\ maxBodyLength' = c.maxBodyLength
        /\ maxFuncBodyLength' = c.maxFuncBodyLength
        /\ maxArrowBodyLength' = c.maxArrowBodyLength
        /\ maxMethodBodyLength' = c.maxMethodBodyLength
        /\ maxCtorBodyLength' = c.maxCtorBodyLength
        /\ ignoreParametersToFunctionRegex' = c.ignoreParametersToFunctionRegex
    /\ optIndex' = optIndex + 1
    /\ UNCHANGED << options, tree, pc, currentClassName, ignoreNodes, failures, stack,
                    cursor, error, validated, returned >>

\* lines 11-13: the constructor has returned, the walk starts at the source file
ApplyWithWalker ==
    /\ pc = "parse"
    /\ optIndex > Len(options)
    /\ pc' = "walk"
    /\ stack' = << Frame(0) >>
    /\ UNCHANGED << options, tree, optIndex, config, currentClassName, ignoreNodes,
                    failures, cursor, error, validated, returned >>

\* lines 38-45 and 49: up to the call of super.visitCallExpression
VisitCallExpression ==
    /\ Entering(CallExpression)
    /\ LET n == cursor + 1 IN
        /\ ignoreNodes' = IF IsIgnoredCall(n) THEN PushArguments(n) ELSE ignoreNodes
        /\ Descend(n)
    /\ UNCHANGED << options, tree, optIndex, config, currentClassName, failures, validated >>

\* lines 46-47 and 50: after super.visitCallExpression has returned
ReturnFromCallExpression ==
    /\ Leaving({CallExpression})
    /\ ignoreNodes' = IF IsIgnoredCall(Top.node) THEN ClearArguments(Top.node) ELSE ignoreNodes
    /\ Return
    /\ UNCHANGED << options, tree, optIndex, config, currentClassName, failures, validated >>

\* validate(node), then super.visit*(node) unless validate threw
ValidateAndDescend(n) ==
    LET out == Validate(n) IN
    /\ validated' = Append(validated, [node |-> n, ignored |-> Contains(ignoreNodes, n)])
    /\ failures' = failures \o out.failures
    /\ IF out.error = NoError THEN Descend(n) ELSE Throw(out.error)
    /\ UNCHANGED << options, tree, optIndex, config, currentClassName, ignoreNodes >>

\* lines 53-56
VisitArrowFunction == Entering(ArrowFunction) /\ ValidateAndDescend(cursor + 1)

\* lines 58-61
VisitMethodDeclaration == Entering(MethodDeclaration) /\ ValidateAndDescend(cursor + 1)

\* lines 63-66
VisitFunctionDeclaration == Entering(FunctionDeclaration) /\ ValidateAndDescend(cursor + 1)

\* lines 68-71
VisitConstructorDeclaration == Entering(Constructor) /\ ValidateAndDescend(cursor + 1)

\* lines 73-75: up to the call of super.visitClassDeclaration; the name of a
\* class declaration without one (export default class { }) cannot be read
VisitClassDeclaration ==
    /\ Entering(ClassDeclaration)
    /\ LET n == cursor + 1 IN
        IF tree[n].name = Undefined
        THEN Throw(TypeError) /\ UNCHANGED currentClassName
        ELSE currentClassName' = tree[n].name.text /\ Descend(n)
    /\ UNCHANGED << options, tree, optIndex, config, ignoreNodes, failures, validated >>

\* line 76: after super.visitClassDeclaration has returned
ReturnFromClassDeclaration ==
    /\ Leaving({ClassDeclaration})
    /\ currentClassName' = ClassNameAfter(Top.node)
    /\ Return
    /\ UNCHANGED << options, tree, optIndex, config, ignoreNodes, failures, validated >>

\* a node of a kind the rule has no hook for: the walker descends into it
VisitNode ==
    /\ Entering(Other)
    /\ Descend(cursor + 1)
    /\ UNCHANGED << options, tree, optIndex, config, currentClassName, ignoreNodes,
                    failures, validated >>

\* the end of a hook that does nothing after its descent
ReturnFromVisit ==
    /\ Leaving(FunctionLikeKinds \cup {Other})
    /\ Return
    /\ UNCHANGED << options, tree, optIndex, config, currentClassName, ignoreNodes,
                    failures, validated >>

\* the walk of the source file returns: applyWithWalker has the failures
Finish ==
    /\ Leaving({SourceFile})
    /\ pc' = "done"
    /\ stack' = << >>
    /\ returned' = Top
    /\ UNCHANGED << options, tree, optIndex, config, currentClassName, ignoreNodes,
                    failures, cursor, error, validated >>

Next ==
    \/ ParseOptions
    \/ ApplyWithWalker
    \/ VisitCallExpression
    \/ ReturnFromCallExpression
    \/ VisitArrowFunction
    \/ VisitMethodDeclaration
    \/ VisitFunctionDeclaration
    \/ VisitConstructorDeclaration
    \/ VisitClassDeclaration
    \/ ReturnFromClassDeclaration
    \/ VisitNode
    \/ ReturnFromVisit
    \/ Finish

\* The walker as constructed, before the constructor calls parseOptions.
Constructed ==
    /\ pc = "parse"
    /\ optIndex = 1
    /\ maxBodyLength = Undefined
    /\ maxFuncBodyLength = Undefined
    /\ maxArrowBodyLength = Undefined
    /\ maxMethodBodyLength = Undefined
    /\ maxCtorBodyLength = Undefined
    /\ currentClassName = Undefined
    /\ ignoreParametersToFunctionRegex = Undefined
    /\ ignoreNodes = << >>
    /\ failures = << >>
    /\ stack = << >>
    /\ cursor = 0
    /\ error = NoError
    /\ validated = << >>
    /\ returned = NoFrame

\* Files of up to MaxNodes nodes, each function-like body on one line or
\* spanning MaxLine line breaks; callees a, b.a, b and one that is neither an
\* identifier nor a property access; a fallback of one line
\* break with the pattern a, or the constructor's maximum with an empty pattern.
WalkBodies == {Body(0, 0), Body(0, MaxLine)}
WalkCallees == {IdentifierCallee(<< "a" >>), PropertyAccessCallee(<< "b", "a" >>),
                IdentifierCallee(<< "b" >>), OtherCallee}
WalkOptions ==
    { << Num(1), Object(Undefined, Undefined, Undefined, Undefined, Str(<< "a" >>)) >>,
      << Object(Undefined, Undefined, Undefined, Num(1), Str(<< >>)) >> }

Init ==
    /\ tree \in Trees(MaxNodes, WalkBodies, WalkCallees)
    /\ options \in WalkOptions
    /\ Constructed

Spec == Init /\ [][Next]_vars

\* The constructor alone, over every list of up to MaxOptions entries: bare
\* numbers, the leading true of a rule's configuration, and objects.
OptionEntries ==
    {Num(1), Num(2), Bool(TRUE)} \cup
    { Object(func, arrow, method, ctor, regex) :
        func \in {Undefined, Num(1)}, arrow \in {Undefined, Num(1)},
        method \in {Undefined, Num(1), Num(2)}, ctor \in {Undefined, Num(1)},
        regex \in {Undefined, Str(<< "a" >>)} }

OptionLists(n) == UNION { [1..m -> OptionEntries] : m \in 0..n }

InitOptions ==
    /\ tree = << >>
    /\ options \in OptionLists(MaxOptions)
    /\ Constructed

SpecOptions == InitOptions /\ [][ParseOptions]_vars

\* A file that holds one node, with every body within the first lines, under
\* a fallback and per-kind maximums of every value around the body lengths.
Thresholds == {Undefined} \cup { Num(v) : v \in (-1)..(MaxLine - 1) }

InitValidate ==
    /\ tree \in { t \in Trees(1, Bodies \cup {Undefined}, WalkCallees) : Len(t) = 1 }
    /\ options \in
         { << Object(func, arrow, method, ctor, Undefined) >> :
             func \in Thresholds, arrow \in Thresholds, method \in Thresholds,
             ctor \in Thresholds } \cup
         { << Num(v), Object(func, arrow, method, ctor, Undefined) >> :
             v \in (-1)..MaxLine,
             func \in Thresholds, arrow \in Thresholds, method \in Thresholds,
             ctor \in Thresholds }
    /\ Constructed

SpecValidate == InitValidate /\ [][Next]_vars

----------------------------------------------------------------------------
(* Vocabulary of the properties, in terms of the file and the fields *)

Nodes == 1..Len(tree)

FunctionLikeNodes == { n \in Nodes : tree[n].kind \in FunctionLikeKinds }

RECURSIVE Ancestors(_)
Ancestors(n) == IF n = 0 THEN {} ELSE {tree[n].parent} \cup Ancestors(tree[n].parent)

\* The child of c that n is or lies under, for an ancestor c of n.
RECURSIVE ChildToward(_, _)
ChildToward(c, n) == IF tree[n].parent = c THEN n ELSE ChildToward(c, tree[n].parent)

\* The callee name of call c matches the configured pattern.
CalleeMatches(c) ==
    /\ ignoreParametersToFunctionRegex # Undefined
    /\ LET callee == tree[c].expression
           name == IF callee.text # Undefined THEN callee.text.val
                   ELSE IF callee.name # Undefined THEN callee.name.text.val
                   ELSE UndefinedText
           pattern == ignoreParametersToFunctionRegex.source
       IN  \E i \in 1..Len(name) : \E j \in i..Len(name) : SubSeq(name, i, j) = pattern

MatchingCalls == { c \in Nodes : tree[c].kind = CallExpression /\ CalleeMatches(c) }

\* n is an argument of a matching call.
DirectArgument(n) == tree[n].argument /\ tree[n].parent \in MatchingCalls

\* n lies in the subtree of an argument of some matching call.
InsideArgument(n) ==
    \E c \in Ancestors(n) \cap MatchingCalls : tree[ChildToward(c, n)].argument

Flagged(n) == \E i \in 1..Len(failures) : failures[i].node = n

Validated(n) == \E i \in 1..Len(validated) : validated[i].node = n

\* The line breaks the body of node n spans.
LineBreaks(n) == IF tree[n].body = Undefined THEN 0 ELSE tree[n].body.end - tree[n].body.pos

\* The per-kind maximum of node n's kind.
PerKind(n) ==
    CASE tree[n].kind = FunctionDeclaration -> maxFuncBodyLength
      [] tree[n].kind = MethodDeclaration -> maxMethodBodyLength
      [] tree[n].kind = ArrowFunction -> maxArrowBodyLength
      [] tree[n].kind = Constructor -> maxCtorBodyLength

\* The resolved threshold: the per-kind maximum when set and non-zero, else the fallback.
Resolved(n) ==
    IF PerKind(n) # Undefined /\ PerKind(n) # Num(0) THEN PerKind(n) ELSE maxBodyLength

Exceeds(n) == Resolved(n) # Undefined /\ LineBreaks(n) > Resolved(n).val

Parsed == pc # "parse"
Ended == pc \in {"done", "error"}

----------------------------------------------------------------------------
(* C1 *)

\* C1 as stated: no failure is ever recorded for a function-like node that
\* lies anywhere inside an argument of a call whose callee matches the pattern
\* (the argument itself, or a function nested at any depth inside it).
C1_NoFailureInsideArgument ==
    \A i \in 1..Len(failures) : ~InsideArgument(failures[i].node)

\* C1 as amended: no failure is ever recorded for a function-like node that is
\* itself an argument of a call whose callee matches the pattern, whatever its
\* body length and the thresholds; ignoreNodes holds every argument of a
\* matching call when validate reaches it.
C1_NoFailureForArgument ==
    /\ \A i \in 1..Len(failures) : ~DirectArgument(failures[i].node)
    /\ \A i \in 1..Len(validated) :
          DirectArgument(validated[i].node) => validated[i].ignored

\* An argument of a matching call that is over its threshold has been
\* validated, and the walk has ended without a failure for it.
C1_Witness ==
    /\ pc = "done"
    /\ \E n \in FunctionLikeNodes :
          DirectArgument(n) /\ Exceeds(n) /\ Validated(n) /\ ~Flagged(n)

----------------------------------------------------------------------------
(* C2 *)

\* C2: an arrow function (the one function-like kind that can be an argument)
\* that validate has reached has a failure exactly when it is not an argument
\* of a matching call and its body spans more line breaks than the resolved
\* threshold: as an argument of a matching call it is never flagged, anywhere
\* else (an argument of a non-matching call, a callee, a statement) it is
\* flagged whenever it is too long.
C2_ArrowFlaggedUnlessArgument ==
    \A i \in 1..Len(validated) :
        LET n == validated[i].node IN
        tree[n].kind = ArrowFunction =>
            (Flagged(n) <=> (~DirectArgument(n) /\ Exceeds(n)))

\* The same too-long arrow function twice in one file: once passed to a
\* matching call and not flagged, once outside it and flagged.
C2_Witness ==
    \E n \in FunctionLikeNodes, m \in FunctionLikeNodes :
        /\ tree[n].kind = ArrowFunction /\ tree[m].kind = ArrowFunction
        /\ tree[n].body = tree[m].body
        /\ DirectArgument(n) /\ Exceeds(n) /\ Validated(n) /\ ~Flagged(n)
        /\ ~DirectArgument(m) /\ Validated(m) /\ Flagged(m)

----------------------------------------------------------------------------
(* C3 *)

EnclosingClasses(n) == { c \in Ancestors(n) \ {0} : tree[c].kind = ClassDeclaration }

\* The name of the innermost class declaration around n, as a failure text
\* shows it; the text of an unset name when there is none.  (The innermost
\* enclosing class is the last one in source order.)
InnermostClassName(n) ==
    IF EnclosingClasses(n) = {} THEN UndefinedText
    ELSE LET c == CHOOSE c \in EnclosingClasses(n) : \A d \in EnclosingClasses(n) : d <= c
         IN  IF tree[c].name = Undefined THEN UndefinedText ELSE tree[c].name.text.val

\* C3: every failure for a constructor names, in its place clause, the
\* innermost class declaration that encloses the constructor (also after a
\* class nested in that class was entered and left), and an unset name when
\* no class declaration encloses it.
C3_ConstructorNamesInnermostClass ==
    \A i \in 1..Len(failures) :
        LET n == failures[i].node IN
        tree[n].kind = Constructor =>
            failures[i].message.placeText = << " in class ", InnermostClassName(n) >>

\* C3 for a constructor that no class declaration nested in its class
\* precedes: then the single current class name is the enclosing class's.
C3_WithoutEarlierNestedClass ==
    \A i \in 1..Len(failures) :
        LET n == failures[i].node IN
        (/\ tree[n].kind = Constructor
         /\ \A c \in EnclosingClasses(n) :
               ~\E d \in (c + 1)..(n - 1) :
                   tree[d].kind = ClassDeclaration /\ c \in Ancestors(d) /\ d \notin Ancestors(n))
        => failures[i].message.placeText = << " in class ", InnermostClassName(n) >>

----------------------------------------------------------------------------
(* C7 *)

\* C7: the walk raises no error of any kind, for any file and any options
\* whose pattern compiles, and has visited every node when it ends.
C7_NoError ==
    /\ pc # "error"
    /\ error = NoError
    /\ Ended => cursor = Len(tree)

\* The one error the walk never raises.
C7_NeverUnsupportedNodeKind == error # UnsupportedNodeKind

----------------------------------------------------------------------------
(* C8 *)

ValidatedTimes(n) == Cardinality({ i \in 1..Len(validated) : validated[i].node = n })
FlaggedTimes(n) == Cardinality({ i \in 1..Len(failures) : failures[i].node = n })

ExactlyOncePreOrder ==
    /\ \A n \in FunctionLikeNodes : ValidatedTimes(n) = 1
    /\ \A n \in FunctionLikeNodes :
          FlaggedTimes(n) = IF ~DirectArgument(n) /\ Exceeds(n) THEN 1 ELSE 0
    /\ \A i \in 1..Len(failures) : \A j \in 1..Len(failures) :
          i < j => failures[i].node < failures[j].node

\* C8: when the walk has ended, every function-like node of the file has been
\* validated exactly once, the failures hold exactly one entry per too-long
\* node that is not suppressed, and they are in depth-first pre-order (the
\* order of the nodes in the file).
C8_EveryNodeValidatedOnce == Ended => ExactlyOncePreOrder

\* C8 for the walks that return.
C8_WhenWalkReturns == pc = "done" => ExactlyOncePreOrder

----------------------------------------------------------------------------
(* C9 *)

\* The hooks in execution, as nodes.
OnStack(n) == \E i \in 1..Len(stack) : stack[i].node = n

\* C9: when the visit of a call returns, ignoreNodes is what the visit found;
\* while a matching call is being traversed ignoreNodes holds every argument
\* of it, also after a nested matching call has been entered and left; and
\* ignoreNodes is empty before the walk and when the walk has returned.
C9_PushPopSymmetric ==
    /\ (returned.node \in Nodes /\ tree[returned.node].kind = CallExpression)
          => ignoreNodes = returned.entry
    /\ \A c \in MatchingCalls : OnStack(c) =>
          \A a \in Nodes : (tree[a].parent = c /\ tree[a].argument) =>
              \E i \in 1..Len(ignoreNodes) : ignoreNodes[i] = a
    /\ pc \in {"parse", "done"} => ignoreNodes = << >>

\* A matching call passed to a matching call has just returned: the outer
\* call is still being traversed and its arguments are still ignored.
C9_Witness ==
    /\ returned.node \in MatchingCalls
    /\ DirectArgument(returned.node)
    /\ OnStack(tree[returned.node].parent)
    /\ \E a \in Nodes : tree[a].parent = returned.node /\ tree[a].argument
    /\ ignoreNodes # << >>

----------------------------------------------------------------------------
(* C10 *)

\* The node whose hook is in execution (the source file before and after).
CurrentNode == IF stack = << >> THEN 0 ELSE Top.node

InsideClass(n) ==
    n # 0 /\ (tree[n].kind = ClassDeclaration \/ EnclosingClasses(n) # {})

\* C10: whenever the current node lies outside every class declaration the
\* current class name is unset, and it is unset right after the visit of any
\* class declaration has returned, also of one nested in a class that is
\* still being traversed.
C10_ClassNameUnsetOutside ==
    /\ ~InsideClass(CurrentNode) => currentClassName = Undefined
    /\ (returned.node \in Nodes /\ tree[returned.node].kind = ClassDeclaration)
          => currentClassName = Undefined

\* The visit of a class nested in a class that is still being traversed has
\* just returned.
C10_Witness ==
    /\ returned.node \in Nodes
    /\ tree[returned.node].kind = ClassDeclaration
    /\ \E c \in EnclosingClasses(returned.node) : OnStack(c)
    /\ currentClassName = Undefined

----------------------------------------------------------------------------
(* C5 *)

ThresholdKeys == {FUNC_BODY_LENGTH, ARROW_BODY_LENGTH, METHOD_BODY_LENGTH, CTOR_BODY_LENGTH}

FieldOf(key) ==
    CASE key = FUNC_BODY_LENGTH -> maxFuncBodyLength
      [] key = ARROW_BODY_LENGTH -> maxArrowBodyLength
      [] key = METHOD_BODY_LENGTH -> maxMethodBodyLength
      [] key = CTOR_BODY_LENGTH -> maxCtorBodyLength

\* The entries parsed so far.
ParsedEntries == 1..(optIndex - 1)

NumberEntries == { i \in ParsedEntries : options[i].type = "number" }
ObjectEntries == { i \in ParsedEntries : options[i].type = "object" }
EntriesSetting(key) == { i \in ObjectEntries : options[i].props[key] # Undefined }

Last(S) == CHOOSE i \in S : \A j \in S : j <= i

\* C5 as stated: after parsing, every threshold field holds the value of the
\* last entry that sets that field, and is unset when no entry sets it; an
\* entry leaves the fields it does not set as they were.
C5_LastEntrySettingTheField ==
    optIndex > Len(options) =>
        /\ maxBodyLength =
              IF NumberEntries = {} THEN Undefined ELSE options[Last(NumberEntries)]
        /\ \A key \in ThresholdKeys :
              FieldOf(key) =
                  IF EntriesSetting(key) = {} THEN Undefined
                  ELSE options[Last(EntriesSetting(key))].props[key]

\* C5 as amended: the fallback holds the value of the last bare number, and
\* is left alone by every other entry; each per-kind threshold holds what the
\* last object entry has under its key, which is unset when that entry lacks
\* the key, whatever earlier entries set.
C5_LastObjectEntryWins ==
    /\ maxBodyLength =
          IF NumberEntries = {} THEN Undefined ELSE options[Last(NumberEntries)]
    /\ \A key \in ThresholdKeys :
          FieldOf(key) =
              IF ObjectEntries = {} THEN Undefined
              ELSE options[Last(ObjectEntries)].props[key]

\* Two entries that set different method thresholds have been parsed, and
\* the second value is in effect.
C5_Witness ==
    /\ optIndex > Len(options)
    /\ \E i \in ObjectEntries, j \in ObjectEntries :
          /\ i < j
          /\ options[i].props[METHOD_BODY_LENGTH] # Undefined
          /\ options[j].props[METHOD_BODY_LENGTH] # Undefined
          /\ options[i].props[METHOD_BODY_LENGTH] # options[j].props[METHOD_BODY_LENGTH]
          /\ maxMethodBodyLength = options[j].props[METHOD_BODY_LENGTH]

----------------------------------------------------------------------------
(* C4 *)

\* C4: a function-like node that ignoreNodes did not hold when validate
\* reached it has a failure if and only if its body spans strictly more line
\* breaks than the resolved threshold of its kind.
C4_FlaggedIffOverThreshold ==
    \A i \in 1..Len(validated) :
        ~validated[i].ignored => (Flagged(validated[i].node) <=> Exceeds(validated[i].node))

\* C4 for the declarations whose name can be read (every node but a function
\* declaration without a name).
C4_ForNamedDeclarations ==
    \A i \in 1..Len(validated) :
        LET n == validated[i].node IN
        (~validated[i].ignored
            /\ ~(tree[n].kind = FunctionDeclaration /\ tree[n].name = Undefined))
        => (Flagged(n) <=> Exceeds(n))

----------------------------------------------------------------------------
(* C6 *)

\* A node without a body, or with a body that starts and ends on one line.
NoLineBreak(n) == tree[n].body = Undefined \/ tree[n].body.pos = tree[n].body.end

\* C6 as stated: a function-like node without a body, or with a body on one
\* line, has length 0 and never gets a failure, whatever the thresholds are;
\* and the computed length of every node is a non-negative integer.
C6_EmptyBodyNeverFlagged ==
    /\ \A n \in FunctionLikeNodes :
          NoLineBreak(n) => (CalcBodyLength(tree[n]) = 0 /\ ~Flagged(n))
    /\ \A n \in FunctionLikeNodes : CalcBodyLength(tree[n]) \in Nat

\* C6 as amended: such a node has length 0 and never gets a failure unless
\* the resolved threshold of its kind is negative; and the computed length of
\* every node is a non-negative integer.
C6_EmptyBodyNeverFlaggedUnlessNegative ==
    /\ \A n \in FunctionLikeNodes :
          NoLineBreak(n) =>
              /\ CalcBodyLength(tree[n]) = 0
              /\ (Parsed /\ (Resolved(n) = Undefined \/ Resolved(n).val >= 0)) => ~Flagged(n)
    /\ \A n \in FunctionLikeNodes : CalcBodyLength(tree[n]) \in Nat

\* A body on one line has been validated against a threshold of 0 and the
\* walk has returned without a failure.
C6_Witness ==
    /\ pc = "done"
    /\ \E n \in FunctionLikeNodes :
          /\ tree[n].body # Undefined /\ NoLineBreak(n)
          /\ Resolved(n) = Num(0)
          /\ Validated(n) /\ ~Flagged(n)

====
